---------------------------- MODULE Spec2Model ----------------------------
(***************************************************************************)
(* Model of notebooks/churn_analysis.py: a script that loads a customer   *)
(* table, normalises it, aggregates churn by segment, projects CLV,       *)
(* scores churn risk, draws a dashboard, estimates the impact of three    *)
(* interventions and exports a high-risk list.                            *)
(*                                                                         *)
(* Conventions.                                                            *)
(*  - Money is kept in integer cents (MonthlyCharges 80.05 is 8005).       *)
(*  - A pandas DataFrame is a sequence of records (rows); None is the      *)
(*    value NoneDf.                                                        *)
(*  - Where the script rounds or truncates a float (round, int), the model  *)
(*    computes the float as IEEE-754 binary64 does, operation by operation, *)
(*    so that a value on or next to a tie falls where the code puts it.     *)
(*    Rounded values are integers in the unit of the last kept decimal.    *)
(*  - A value that may be NaN is [nan, v]: NaN, or the number v.            *)
(*  - Amounts the script never rounds (CLV, revenue protected) and ratios   *)
(*    of counts it only prints are kept exact: cents, or a rational         *)
(*    [num, den].                                                           *)
(*  - pandas 2.x semantics: groupby sorts its keys and keeps unobserved    *)
(*    categories of a categorical key; pd.cut bins are right-closed.       *)
(***************************************************************************)
EXTENDS Integers, Sequences, FiniteSets

VARIABLES
    pc,                 \* the section of the script about to run
    source,             \* the data file: "ok", "missing" or "unreadable"
    display,            \* whether the dashboard can be drawn and saved
    outdir,             \* whether the export directory can be written
    raw,                \* the rows of the data file
    df,                 \* the module-level df (NoneDf when loading failed)
    analyses,           \* Section 2: segment summaries, per grouped column
    chi_results,        \* Section 3: degrees of freedom, per tested column
    active_customers,   \* Section 5: scored rows with Churned = 0
    churned_customers,  \* Section 5: scored rows with Churned = 1
    impact,             \* Section 7: the intervention figures
    high_risk_export,   \* Section 9: the rows of the high-risk list
    ran                 \* the sections whose data-processing body executed

vars == <<pc, source, display, outdir, raw, df, analyses, chi_results,
          active_customers, churned_customers, impact, high_risk_export, ran>>

----------------------------------------------------------------------------
(* Bounds of the model *)

\* Longest table of the pipeline specification.
MaxRows == 3

\* Longest table of the impact specification.
MaxImpactRows == 6

\* Longest table of the environment specification.
MaxEnvRows == 2

----------------------------------------------------------------------------
(* Generic helpers *)

\* The module-level df: None, or a DataFrame with its rows.
NoneDf == [is_none |-> TRUE, rows |-> <<>>]
DataFrame(rows) == [is_none |-> FALSE, rows |-> rows]

RECURSIVE SeqSum(_)
SeqSum(s) == IF s = <<>> THEN 0 ELSE Head(s) + SeqSum(Tail(s))

\* The column `col` of a table, as a sequence.
Column(rows, col) == [i \in DOMAIN rows |-> rows[i][col]]

\* floor of the rational n/d, d > 0.
Floor(n, d) == n \div d

\* The row `row` with the columns of `extra` added (or overwritten).
WithColumns(row, extra) ==
    [f \in DOMAIN row \cup DOMAIN extra |->
        IF f \in DOMAIN extra THEN extra[f] ELSE row[f]]

\* A float result that may be missing.
NaN == [nan |-> TRUE, v |-> 0]
Num(v) == [nan |-> FALSE, v |-> v]

----------------------------------------------------------------------------
(* IEEE-754 binary64 arithmetic, as numpy and Python compute on floats.    *)
(* A natural number of any size is a sequence of limbs, least significant  *)
(* first, without a leading zero limb; a finite double is sgn * m * 2^e   *)
(* with m of exactly 53 bits (sgn = 0 and m = <<>> for zero).  Every      *)
(* operation rounds its exact result to the nearest double, ties to even. *)
(* The operations are functions: each is applied to values.               *)

LimbBits == 15
LimbBase == 32768

\* The natural numbers, as limb sequences.
Limbs == Seq(Nat)

BigFromInt[n \in Nat] ==
    IF n = 0 THEN <<>> ELSE <<n % LimbBase>> \o BigFromInt[n \div LimbBase]

BigToInt[a \in Limbs] == IF a = <<>> THEN 0 ELSE Head(a) + LimbBase * BigToInt[Tail(a)]

BigTrim[a \in Limbs] ==
    IF a # <<>> /\ a[Len(a)] = 0 THEN BigTrim[SubSeq(a, 1, Len(a) - 1)] ELSE a

BigAddCarry[a \in Limbs, b \in Limbs, carry \in Nat] ==
    IF a = <<>> /\ b = <<>> THEN (IF carry = 0 THEN <<>> ELSE <<carry>>)
    ELSE LET x == (IF a = <<>> THEN 0 ELSE Head(a))
                  + (IF b = <<>> THEN 0 ELSE Head(b)) + carry
         IN  <<x % LimbBase>>
                 \o BigAddCarry[IF a = <<>> THEN <<>> ELSE Tail(a),
                                IF b = <<>> THEN <<>> ELSE Tail(b), x \div LimbBase]

BigAdd[a \in Limbs, b \in Limbs] == BigAddCarry[a, b, 0]

\* a - b for a >= b.
BigSubBorrow[a \in Limbs, b \in Limbs, borrow \in Nat] ==
    IF a = <<>> THEN <<>>
    ELSE LET x == Head(a) - (IF b = <<>> THEN 0 ELSE Head(b)) - borrow
         IN  <<(x + LimbBase) % LimbBase>>
                 \o BigSubBorrow[Tail(a), IF b = <<>> THEN <<>> ELSE Tail(b),
                                 IF x < 0 THEN 1 ELSE 0]

BigSub[a \in Limbs, b \in Limbs] == BigTrim[BigSubBorrow[a, b, 0]]

BigCmpFrom[a \in Limbs, b \in Limbs, i \in Nat] ==
    IF i = 0 THEN 0
    ELSE IF a[i] # b[i] THEN (IF a[i] < b[i] THEN -1 ELSE 1)
    ELSE BigCmpFrom[a, b, i - 1]

\* -1, 0 or 1 as a is below, equal to or above b.
BigCmp[a \in Limbs, b \in Limbs] ==
    IF Len(a) # Len(b) THEN (IF Len(a) < Len(b) THEN -1 ELSE 1)
    ELSE BigCmpFrom[a, b, Len(a)]

\* a * c for a limb-sized c.
BigMulSmallCarry[a \in Limbs, c \in Nat, carry \in Nat] ==
    IF a = <<>> THEN (IF carry = 0 THEN <<>> ELSE <<carry>>)
    ELSE LET x == Head(a) * c + carry
         IN  <<x % LimbBase>> \o BigMulSmallCarry[Tail(a), c, x \div LimbBase]

BigMulSmall[a \in Limbs, c \in Nat] == IF c = 0 THEN <<>> ELSE BigMulSmallCarry[a, c, 0]

BigShiftLimbs[a \in Limbs, k \in Nat] == IF a = <<>> THEN <<>> ELSE [i \in 1..k |-> 0] \o a

BigMul[a \in Limbs, b \in Limbs] ==
    IF a = <<>> \/ b = <<>> THEN <<>>
    ELSE BigAdd[BigMulSmall[a, Head(b)], BigShiftLimbs[BigMul[a, Tail(b)], 1]]

\* a * 2^k
BigShl[a \in Limbs, k \in Nat] ==
    BigShiftLimbs[BigMulSmall[a, 2 ^ (k % LimbBits)], k \div LimbBits]

\* The quotient of the limbs 1..i of a by the limb-sized c, rem carried in.
BigDivSmallFrom[a \in Limbs, i \in Nat, c \in Nat, rem \in Nat] ==
    IF i = 0 THEN <<>>
    ELSE LET x == rem * LimbBase + a[i]
         IN  Append(BigDivSmallFrom[a, i - 1, c, x % c], x \div c)

\* floor(a / 2^k)
BigShr[a \in Limbs, k \in Nat] ==
    IF k \div LimbBits >= Len(a) THEN <<>>
    ELSE LET high == SubSeq(a, k \div LimbBits + 1, Len(a))
         IN  BigTrim[BigDivSmallFrom[high, Len(high), 2 ^ (k % LimbBits), 0]]

IntBitLen[n \in Nat] == IF n = 0 THEN 0 ELSE 1 + IntBitLen[n \div 2]

BigBitLen[a \in Limbs] ==
    IF a = <<>> THEN 0 ELSE LimbBits * (Len(a) - 1) + IntBitLen[a[Len(a)]]

BigIsOdd[a \in Limbs] == a # <<>> /\ a[1] % 2 = 1

\* floor(a / 2^k) moved to the nearest integer, ties to even.
BigShrNearestEven[a \in Limbs, k \in Nat] ==
    IF k = 0 THEN a
    ELSE LET q == BigShr[a, k]
             c == BigCmp[BigSub[a, BigShl[q, k]], BigShl[<<1>>, k - 1]]
         IN  IF c = 1 \/ (c = 0 /\ BigIsOdd[q]) THEN BigAdd[q, <<1>>] ELSE q

MantissaBits == 53

FZero == [sgn |-> 0, m |-> <<>>, e |-> 0]

\* The finite doubles.
Doubles == [sgn : {-1, 0, 1}, m : Limbs, e : Int]

\* The double nearest to sgn * mag * 2^e.
FRound[sgn \in {-1, 0, 1}, mag \in Limbs, e \in Int] ==
    IF mag = <<>> \/ sgn = 0 THEN FZero
    ELSE LET len == BigBitLen[mag]
         IN  IF len <= MantissaBits
             THEN [sgn |-> sgn, m |-> BigShl[mag, MantissaBits - len],
                   e |-> e - (MantissaBits - len)]
             ELSE LET k == len - MantissaBits
                      q == BigShrNearestEven[mag, k]
                  IN  IF BigBitLen[q] > MantissaBits
                      THEN [sgn |-> sgn, m |-> BigShr[q, 1], e |-> e + k + 1]
                      ELSE [sgn |-> sgn, m |-> q, e |-> e + k]

\* float(n) of an integer n
FInt[n \in Int] ==
    IF n = 0 THEN FZero
    ELSE IF n > 0 THEN FRound[1, BigFromInt[n], 0] ELSE FRound[-1, BigFromInt[-n], 0]

FNeg[x \in Doubles] == [x EXCEPT !.sgn = -x.sgn]

\* x * y
FMul[x \in Doubles, y \in Doubles] ==
    IF x.sgn = 0 \/ y.sgn = 0 THEN FZero
    ELSE FRound[x.sgn * y.sgn, BigMul[x.m, y.m], x.e + y.e]

\* x + y
FAdd[x \in Doubles, y \in Doubles] ==
    IF x.sgn = 0 THEN y
    ELSE IF y.sgn = 0 THEN x
    ELSE LET e == IF x.e < y.e THEN x.e ELSE y.e
             ax == BigShl[x.m, x.e - e]
             ay == BigShl[y.m, y.e - e]
         IN  IF x.sgn = y.sgn THEN FRound[x.sgn, BigAdd[ax, ay], e]
             ELSE IF BigCmp[ax, ay] = 0 THEN FZero
             ELSE IF BigCmp[ax, ay] = 1 THEN FRound[x.sgn, BigSub[ax, ay], e]
             ELSE FRound[y.sgn, BigSub[ay, ax], e]

\* x - y
FSub[x \in Doubles, y \in Doubles] == FAdd[x, FNeg[y]]

FractionLimbs == 5

\* The first `count` limbs after the point of rem / den, for rem < den and
\* den below 2^16.
RatioLimbs[rem \in Nat, den \in Nat, count \in Nat] ==
    IF count = 0 THEN <<>>
    ELSE Append(RatioLimbs[(rem * LimbBase) % den, den, count - 1],
                (rem * LimbBase) \div den)

\* What is left of the remainder after those limbs.
RatioRest[rem \in Nat, den \in Nat, count \in Nat] ==
    IF count = 0 THEN rem ELSE RatioRest[(rem * LimbBase) % den, den, count - 1]

\* p / q as a double, for integers p >= 0 and 0 < q < 2^16: the quotient is
\* developed 75 bits past the point, which leaves more than 55 significant
\* bits, and a last bit records whether anything is left, so that rounding
\* sees the three cases below, at and above the tie.
FDivInt[p \in Nat, q \in Nat] ==
    IF p = 0 THEN FZero
    ELSE LET quot == BigTrim[RatioLimbs[p % q, q, FractionLimbs] \o BigFromInt[p \div q]]
             sticky == IF RatioRest[p % q, q, FractionLimbs] = 0 THEN 0 ELSE 1
         IN  FRound[1, BigAddCarry[BigMulSmall[quot, 2], <<>>, sticky],
                    -(FractionLimbs * LimbBits + 1)]

\* int(x): the integer part of x, toward zero.
FTrunc[x \in Doubles] ==
    IF x.sgn = 0 THEN 0
    ELSE IF x.e >= 0 THEN x.sgn * BigToInt[BigShl[x.m, x.e]]
    ELSE x.sgn * BigToInt[BigShr[x.m, -x.e]]

\* np.rint(x): the nearest integer, ties to even.
FRint[x \in Doubles] ==
    IF x.sgn = 0 THEN 0
    ELSE IF x.e >= 0 THEN x.sgn * BigToInt[BigShl[x.m, x.e]]
    ELSE x.sgn * BigToInt[BigShrNearestEven[x.m, -x.e]]

----------------------------------------------------------------------------
(* The values of the categorical columns, each in ascending string order *)

ContractValues == <<"Month-to-month", "One year", "Two year">>
PaymentValues == <<"Bank transfer (automatic)", "Credit card (automatic)",
                   "Electronic check", "Mailed check">>
InternetValues == <<"DSL", "Fiber optic", "No">>
AddOnValues == <<"No", "No internet service", "Yes">>
YesNoValues == <<"No", "Yes">>
TenureLabels == <<"0-12 months", "13-24 months", "25-48 months", "49-72 months">>

Range(s) == {s[i] : i \in DOMAIN s}

----------------------------------------------------------------------------
(* Section 1: load_and_prepare_data *)

\* pd.to_numeric(errors='coerce') then fillna(0): a blank TotalCharges
\* (here <<>>) becomes 0, a number <<c>> stays c.
CoerceTotalCharges(x) == IF x = <<>> THEN 0 ELSE x[1]

\* SeniorCitizen.map({0: 'No', 1: 'Yes'})
MapSeniorCitizen(x) == IF x = 1 THEN "Yes" ELSE "No"

\* (Churn == 'Yes').astype(int)
ChurnedFlag(label) == IF label = "Yes" THEN 1 ELSE 0

\* pd.cut(tenure, bins=[0, 12, 24, 48, 72], labels=...): right-closed bins
\* (0,12], (12,24], (24,48], (48,72]; a value in no bin is NaN.
TenureGroup_MutLeftClosed(tenure) ==
    IF tenure >= 0 /\ tenure < 12 THEN "0-12 months"
    ELSE IF tenure >= 12 /\ tenure < 24 THEN "13-24 months"
    ELSE IF tenure >= 24 /\ tenure < 48 THEN "25-48 months"
    ELSE IF tenure >= 48 /\ tenure < 72 THEN "49-72 months"
    ELSE "NaN"

TenureGroup(tenure) ==
    IF tenure > 0 /\ tenure <= 12 THEN "0-12 months"
    ELSE IF tenure > 12 /\ tenure <= 24 THEN "13-24 months"
    ELSE IF tenure > 24 /\ tenure <= 48 THEN "25-48 months"
    ELSE IF tenure > 48 /\ tenure <= 72 THEN "49-72 months"
    ELSE "NaN"

service_cols == <<"PhoneService", "MultipleLines", "InternetService",
                  "OnlineSecurity", "OnlineBackup", "DeviceProtection",
                  "TechSupport", "StreamingTV", "StreamingMovies">>

NotAService == {"No", "No phone service", "No internet service"}

\* A count of the fields that say 'Yes' only.
ServiceCount_MutYesOnly(row) ==
    Cardinality({i \in DOMAIN service_cols : row[service_cols[i]] = "Yes"})

\* sum(1 for val in x if val not in ['No', 'No phone service',
\* 'No internet service']) over the nine service columns of the row.
ServiceCount(row) ==
    Cardinality({i \in DOMAIN service_cols : row[service_cols[i]] \notin NotAService})

\* One row of the prepared table: the raw columns, cleaned, plus the
\* derived ones.
PrepareRow(r) ==
    WithColumns(r,
        [SeniorCitizen |-> MapSeniorCitizen(r.SeniorCitizen),
         TotalCharges |-> CoerceTotalCharges(r.TotalCharges),
         Churned |-> ChurnedFlag(r.Churn),
         TenureGroup |-> TenureGroup(r.tenure),
         RevenueAtRisk |-> r.MonthlyCharges * ChurnedFlag(r.Churn),
         ServiceCount |-> ServiceCount(r)])

\* The outcome of load_and_prepare_data(DATA_PATH): the prepared table; None
\* when pd.read_csv raises FileNotFoundError; and an exception that leaves
\* the function when pd.read_csv raises anything else (only
\* FileNotFoundError is caught).
load_and_prepare_data(src, rows) ==
    IF src = "ok"
    THEN [raised |-> FALSE, value |-> DataFrame([i \in DOMAIN rows |-> PrepareRow(rows[i])])]
    ELSE IF src = "missing"
    THEN [raised |-> FALSE, value |-> NoneDf]
    ELSE [raised |-> TRUE, value |-> NoneDf]

----------------------------------------------------------------------------
(* Section 5: the risk scoring rules *)

ContractPoints(row) ==
    IF row.Contract = "Month-to-month" THEN 3
    ELSE IF row.Contract = "One year" THEN 1 ELSE 0

TenurePoints(row) ==
    IF row.tenure <= 12 THEN 3
    ELSE IF row.tenure <= 24 THEN 1 ELSE 0

PaymentPoints(row) == IF row.PaymentMethod = "Electronic check" THEN 2 ELSE 0

TechSupportPoints(row) ==
    IF row.TechSupport = "No" /\ row.InternetService # "No" THEN 2 ELSE 0

OnlineSecurityPoints(row) ==
    IF row.OnlineSecurity = "No" /\ row.InternetService # "No" THEN 2 ELSE 0

ChargePoints(row) == IF row.MonthlyCharges > 8000 THEN 2 ELSE 0

FiberPoints(row) == IF row.InternetService = "Fiber optic" THEN 1 ELSE 0

\* A scorer that stops at the first rule that matches.
calculate_risk_score_MutEarlyExit(row) ==
    IF ContractPoints(row) > 0 THEN ContractPoints(row)
    ELSE IF TenurePoints(row) > 0 THEN TenurePoints(row)
    ELSE PaymentPoints(row) + TechSupportPoints(row) + OnlineSecurityPoints(row)
         + ChargePoints(row) + FiberPoints(row)

\* A scorer whose two tenure tests are both applied (if ... if, not elif).
calculate_risk_score_MutNoElif(row) ==
    ContractPoints(row)
    + (IF row.tenure <= 12 THEN 3 ELSE 0) + (IF row.tenure <= 24 THEN 1 ELSE 0)
    + PaymentPoints(row) + TechSupportPoints(row) + OnlineSecurityPoints(row)
    + ChargePoints(row) + FiberPoints(row)

calculate_risk_score(row) ==
    ContractPoints(row) + TenurePoints(row) + PaymentPoints(row)
    + TechSupportPoints(row) + OnlineSecurityPoints(row)
    + ChargePoints(row) + FiberPoints(row)

\* A categoriser whose High threshold is strict.
assign_risk_category_MutStrict(score) ==
    IF score >= 10 THEN "Critical Risk"
    ELSE IF score > 7 THEN "High Risk"
    ELSE IF score >= 4 THEN "Medium Risk"
    ELSE "Low Risk"

assign_risk_category(score) ==
    IF score >= 10 THEN "Critical Risk"
    ELSE IF score >= 7 THEN "High Risk"
    ELSE IF score >= 4 THEN "Medium Risk"
    ELSE "Low Risk"

\* df.apply(calculate_risk_score, axis=1) and RiskScore.apply(assign_risk_category)
ScoreRow(row) ==
    LET score == calculate_risk_score(row)
    IN  WithColumns(row, [RiskScore |-> score,
                          RiskCategory |-> assign_risk_category(score)])

\* A single pass that scores the whole table whatever the flag.
ScoredSubset_MutAllRows(table, flag) == [i \in DOMAIN table |-> ScoreRow(table[i])]

\* df[df['Churned'] == flag].copy() with RiskScore and RiskCategory added.
ScoredSubset(table, flag) ==
    LET subset == SelectSeq(table, LAMBDA r : r.Churned = flag)
    IN  [i \in DOMAIN subset |-> ScoreRow(subset[i])]

----------------------------------------------------------------------------
(* Section 2: analyze_churn_by_segment *)

\* The admissible values of a grouped column, in ascending order.
ColumnValues(column) ==
    CASE column = "Contract" -> ContractValues
      [] column = "PaymentMethod" -> PaymentValues
      [] column = "TenureGroup" -> TenureLabels
      [] column = "InternetService" -> InternetValues
      [] column = "TechSupport" -> AddOnValues
      [] column = "SeniorCitizen" -> YesNoValues
      [] column = "Partner" -> YesNoValues
      [] column = "Dependents" -> YesNoValues
      [] column = "Churn" -> YesNoValues

\* The keys in the order of their first appearance in the table.
RECURSIVE FirstSeen(_, _)
FirstSeen(table, column) ==
    IF table = <<>> THEN <<>>
    ELSE LET before == FirstSeen(SubSeq(table, 1, Len(table) - 1), column)
             k == table[Len(table)][column]
         IN  IF k \in Range(before) \/ k = "NaN" THEN before ELSE Append(before, k)

\* A groupby that keeps first-seen order (sort=False).
GroupKeys_MutFirstSeen(table, column) == FirstSeen(table, column)

\* The group keys of df.groupby(column), in result order: groupby sorts its
\* keys (sort=True is the default) and drops NaN keys; for the categorical
\* TenureGroup every category is a key, observed or not.
GroupKeys(table, column) ==
    IF column = "TenureGroup" THEN TenureLabels
    ELSE SelectSeq(ColumnValues(column),
                   LAMBDA k : \E i \in DOMAIN table : table[i][column] = k)

GroupRows(table, column, key) == SelectSeq(table, LAMBDA r : r[column] = key)

\* An aggregation that keeps the first charge of the group ('first' for 'sum').
GroupTotalRevenue_MutFirst(rows) ==
    IF rows = <<>> THEN 0 ELSE rows[1].MonthlyCharges

\* np.round(x, decimals) of a float x >= 0 is rint(x * 10**decimals) /
\* 10**decimals: RoundUnits is the integer the rint gives, the number of
\* units of the last kept decimal, and FromUnits the float the division
\* gives back.
RoundUnits(x, decimals) == FRint[FMul[x, FInt[10 ^ decimals]]]

FromUnits(units, decimals) == FDivInt[units, 10 ^ decimals]

\* ('MonthlyCharges', 'sum') then round(4), in cents: the float sum of
\* amounts in whole cents is within a millionth of a cent of their exact
\* sum, and rounds to it.
GroupTotalRevenue(rows) == SeqSum(Column(rows, "MonthlyCharges"))

\* ('Churned', 'mean') then round(4), in units of 0.0001: the float
\* quotient sum / count, times 10**4, to the nearest integer; NaN for a
\* group without rows.
GroupChurnRate(rows) ==
    IF rows = <<>> THEN NaN
    ELSE Num(RoundUnits(FDivInt[SeqSum(Column(rows, "Churned")), Len(rows)], 4))

\* (analysis['Churn Rate'] * 100).round(1), in units of 0.1
GroupChurnRatePct(rows) ==
    IF rows = <<>> THEN NaN
    ELSE Num(RoundUnits(FMul[FromUnits(GroupChurnRate(rows).v, 4), FInt[100]], 1))

\* The sum of the monthly charges of the churned members only.
SegmentRevenueAtRisk_MutChurnedOnly(rows) ==
    IF rows = <<>> THEN NaN ELSE Num(SeqSum(Column(rows, "RevenueAtRisk")))

\* (analysis['Total Revenue'] * analysis['Churn Rate']).round(2), in cents:
\* the float product of the two rounded columns, rounded again.
SegmentRevenueAtRisk(rows) ==
    IF rows = <<>> THEN NaN
    ELSE Num(RoundUnits(FMul[FromUnits(GroupTotalRevenue(rows), 2),
                             FromUnits(GroupChurnRate(rows).v, 4)], 2))

\* One row of the analysis table.
SegmentSummary(rows, key) ==
    [key |-> key,
     TotalCustomers |-> Len(rows),
     Churned |-> SeqSum(Column(rows, "Churned")),
     ChurnRate |-> GroupChurnRate(rows),
     TotalRevenue |-> GroupTotalRevenue(rows),
     ChurnRatePct |-> GroupChurnRatePct(rows),
     RevenueAtRisk |-> SegmentRevenueAtRisk(rows)]

analyze_churn_by_segment(table, column) ==
    LET keys == GroupKeys(table, column)
    IN  [i \in DOMAIN keys |-> SegmentSummary(GroupRows(table, column, keys[i]), keys[i])]

\* The six analyses of Section 2, in call order.
SegmentColumns == <<"Contract", "PaymentMethod", "TenureGroup",
                    "InternetService", "TechSupport", "SeniorCitizen">>

----------------------------------------------------------------------------
(* Section 3: chi_square_test *)

\* pd.crosstab(df[column1], df[column2]): the counts over the observed values.
Crosstab(table, column1, column2) ==
    LET rowKeys == GroupKeys(table, column1)
        colKeys == GroupKeys(table, column2)
    IN  [i \in DOMAIN rowKeys |->
            [j \in DOMAIN colKeys |->
                Len(SelectSeq(table, LAMBDA r : r[column1] = rowKeys[i]
                                                /\ r[column2] = colKeys[j]))]]

\* The degrees of freedom chi2_contingency returns.  The statistic and the
\* p-value are real numbers and are not part of the model.
chi_square_test(table, column1) ==
    LET contingency == Crosstab(table, column1, "Churn")
    IN  (Len(contingency) - 1) * (Len(contingency[1]) - 1)

test_columns == <<"Contract", "PaymentMethod", "TechSupport", "InternetService",
                  "SeniorCitizen", "Partner", "Dependents">>

----------------------------------------------------------------------------
(* Section 4: calculate_clv *)

projection_months == 36

\* A projection that ignores the horizon it is given and always uses 36.
calculate_clv_MutFixedHorizon(table, months) ==
    [i \in DOMAIN table |->
        LET clv == table[i].TotalCharges + table[i].MonthlyCharges * 36
        IN  WithColumns(table[i], [ProjectedCLV |-> clv,
                                   CLVAtRisk |-> clv * table[i].Churned])]

\* ProjectedCLV = TotalCharges + MonthlyCharges * projection_months and
\* CLVAtRisk = ProjectedCLV * Churned, on a copy of the table.
calculate_clv(table, months) ==
    [i \in DOMAIN table |->
        LET clv == table[i].TotalCharges + table[i].MonthlyCharges * months
        IN  WithColumns(table[i], [ProjectedCLV |-> clv,
                                   CLVAtRisk |-> clv * table[i].Churned])]

----------------------------------------------------------------------------
(* Section 7: the impact estimator *)

\* df[...]['Churned'].mean(): the float quotient sum / count, NaN for an
\* empty selection.
ChurnMean(table) ==
    IF table = <<>> THEN NaN
    ELSE Num(FDivInt[SeqSum(Column(table, "Churned")), Len(table)])

\* a - b of two means; NaN when either is.
ChurnDifference(a, b) == IF a.nan \/ b.nan THEN NaN ELSE Num(FSub[a.v, b.v])

conversion_pct == 30
migration_pct == 40
tech_cost_per_customer == 96

\* int(population * rate) for the rate pct / 100 written as a float literal
TargetedCustomers(population, pct) ==
    FTrunc[FMul[FInt[population], FDivInt[pct, 100]]]

\* One floor of population * rate * delta, as a what-if formula would read.
CustomersSaved_MutSingleFloor(population, pct, delta) ==
    LET x == FMul[FMul[FInt[population], FDivInt[pct, 100]], delta]
        whole == FTrunc[x]
    IN  IF x.sgn < 0 /\ FInt[whole] # x THEN whole - 1 ELSE whole

\* int(int(population * rate) * delta): the targeted population is cut to
\* a whole number of customers, then the float product with the float
\* churn-rate difference is cut again, both toward zero.
CustomersSaved(population, pct, delta) ==
    FTrunc[FMul[FInt[TargetedCustomers(population, pct)], delta]]

\* The payment methods df['PaymentMethod'].str.contains('credit card',
\* case=False) selects.
CreditCardMethods == {"Credit card (automatic)"}

\* df[df['Contract'] == contract]
ContractRows(table, contract) == SelectSeq(table, LAMBDA r : r.Contract = contract)

\* df[df['PaymentMethod'] == 'Electronic check']
ECheckRows(table) == SelectSeq(table, LAMBDA r : r.PaymentMethod = "Electronic check")

\* df[df['PaymentMethod'].str.contains('credit card', case=False)]
CreditCardRows(table) == SelectSeq(table, LAMBDA r : r.PaymentMethod \in CreditCardMethods)

\* df[(df['TechSupport'] == 'No') & (df['InternetService'] != 'No')]
NoTechRows(table) ==
    SelectSeq(table, LAMBDA r : r.TechSupport = "No" /\ r.InternetService # "No")

\* df[df['TechSupport'] == 'Yes']
WithTechRows(table) == SelectSeq(table, LAMBDA r : r.TechSupport = "Yes")

\* ... & (df['Churned'] == 0)
ActiveRows(table) == SelectSeq(table, LAMBDA r : r.Churned = 0)

\* The printed figures, from the three churn-rate differences and the three
\* numbers of customers saved.  The churn-rate differences are floats; the
\* amounts, which the script prints and never rounds, are exact ratios of
\* cents.
ImpactFigures(table, churn_reduction, churn_reduction_payment, churn_reduction_tech, customers_saved, customers_saved_payment, customers_saved_tech) ==
    LET total_customers == Len(table)
        churned_count == SeqSum(Column(table, "Churned"))
        total_charges == SeqSum(Column(table, "MonthlyCharges"))
        monthly_customers == Len(ContractRows(table, "Month-to-month"))
        echeck_customers == Len(ActiveRows(ECheckRows(table)))
        no_tech == Len(ActiveRows(NoTechRows(table)))
    IN  [computed |-> TRUE,
         raised |-> FALSE,
         total_customers |-> total_customers,
         churned_count |-> churned_count,
         monthly_customers |-> monthly_customers,
         converted_customers |-> TargetedCustomers(monthly_customers, conversion_pct),
         churn_reduction |-> churn_reduction,
         customers_saved |-> customers_saved,
         echeck_customers |-> echeck_customers,
         migrated_customers |-> TargetedCustomers(echeck_customers, migration_pct),
         churn_reduction_payment |-> churn_reduction_payment,
         customers_saved_payment |-> customers_saved_payment,
         no_tech |-> no_tech,
         churn_reduction_tech |-> churn_reduction_tech,
         customers_saved_tech |-> customers_saved_tech,
         \* customers_saved * avg_monthly_charge * 12, in cents, as the
         \* numerator over total_customers
         avg_monthly_charge |-> [num |-> total_charges, den |-> total_customers],
         revenue_saved_contract |->
             [num |-> customers_saved * total_charges * 12, den |-> total_customers],
         revenue_saved_payment |->
             [num |-> customers_saved_payment * total_charges * 12,
              den |-> total_customers],
         revenue_saved_tech |->
             [num |-> customers_saved_tech * total_charges * 12,
              den |-> total_customers],
         tech_investment |-> no_tech * tech_cost_per_customer * 100,
         total_customers_saved |->
             customers_saved + customers_saved_payment + customers_saved_tech,
         new_churn_rate |->
             [num |-> churned_count
                        - (customers_saved + customers_saved_payment + customers_saved_tech),
              den |-> total_customers]]

\* The three interventions, from their churn-rate differences: raised = TRUE
\* when int() is given NaN.  The mean of an empty selection is NaN and
\* int(NaN) raises ValueError, which nothing catches.
ImpactOfReductions(table, reduction, reduction_payment, reduction_tech) ==
    IF reduction.nan \/ reduction_payment.nan \/ reduction_tech.nan
    THEN [computed |-> FALSE, raised |-> TRUE]
    ELSE ImpactFigures(table, reduction.v, reduction_payment.v, reduction_tech.v,
             CustomersSaved(Len(ContractRows(table, "Month-to-month")),
                            conversion_pct, reduction.v),
             CustomersSaved(Len(ActiveRows(ECheckRows(table))),
                            migration_pct, reduction_payment.v),
             FTrunc[FMul[FInt[Len(ActiveRows(NoTechRows(table)))], reduction_tech.v]])

\* The figures of Section 7.
ImpactEstimate(table) ==
    ImpactOfReductions(table,
        ChurnDifference(ChurnMean(ContractRows(table, "Month-to-month")),
                        ChurnMean(ContractRows(table, "One year"))),
        ChurnDifference(ChurnMean(ECheckRows(table)), ChurnMean(CreditCardRows(table))),
        ChurnDifference(ChurnMean(NoTechRows(table)), ChurnMean(WithTechRows(table))))

----------------------------------------------------------------------------
(* Section 9: the high-risk export *)

HighRisk(scored) ==
    SelectSeq(scored, LAMBDA r : r.RiskCategory \in {"Critical Risk", "High Risk"})

export_columns == {"customerID", "tenure", "Contract", "MonthlyCharges", "PaymentMethod",
                   "TechSupport", "InternetService", "RiskScore", "RiskCategory"}

SelectColumns(table, cols) == [i \in DOMAIN table |-> [c \in cols |-> table[i][c]]]

\* The orders sort_values('RiskScore', ascending=False) may return: the
\* default sort is not stable, so rows of equal score come in any order.
RECURSIVE ScoreOrders(_, _)
ScoreOrders(table, left) ==
    IF left = {} THEN {<<>>}
    ELSE UNION {{<<table[i]>> \o rest : rest \in ScoreOrders(table, left \ {i})} :
                i \in {j \in left : \A k \in left :
                                        table[j].RiskScore >= table[k].RiskScore}}

\* An export that keeps the rows in file order.
SortedByScoreDesc_MutUnsorted(table) == {table}

SortedByScoreDesc(table) == ScoreOrders(table, DOMAIN table)

----------------------------------------------------------------------------
(* The script, section by section *)

NoImpact == [computed |-> FALSE, raised |-> FALSE]

NoAnalyses == [c \in Range(SegmentColumns) |-> <<>>]

\* Section 1: df = load_and_prepare_data(DATA_PATH)
LoadData ==
    /\ pc = "load"
    /\ LET out == load_and_prepare_data(source, raw)
       IN  IF out.raised
           THEN /\ pc' = "crashed"
                /\ UNCHANGED <<df, ran>>
           ELSE /\ df' = out.value
                /\ ran' = IF out.value.is_none THEN ran ELSE ran \cup {"load"}
                /\ pc' = "segments"
    /\ UNCHANGED <<source, display, outdir, raw, analyses, chi_results,
                   active_customers, churned_customers, impact, high_risk_export>>

\* Section 2: the six analyze_churn_by_segment calls
SegmentAnalysis ==
    /\ pc = "segments"
    /\ IF df.is_none
       THEN UNCHANGED <<analyses, ran>>
       ELSE /\ analyses' = [c \in Range(SegmentColumns) |->
                                analyze_churn_by_segment(df.rows, c)]
            /\ ran' = ran \cup {"segments"}
    /\ pc' = "chi_square"
    /\ UNCHANGED <<source, display, outdir, raw, df, chi_results,
                   active_customers, churned_customers, impact, high_risk_export>>

\* Section 3: the chi-square tests
ChiSquare ==
    /\ pc = "chi_square"
    /\ IF df.is_none
       THEN UNCHANGED <<chi_results, ran>>
       ELSE /\ chi_results' = [i \in DOMAIN test_columns |->
                                  [Factor |-> test_columns[i],
                                   dof |-> chi_square_test(df.rows, test_columns[i])]]
            /\ ran' = ran \cup {"chi_square"}
    /\ pc' = "clv"
    /\ UNCHANGED <<source, display, outdir, raw, df, analyses,
                   active_customers, churned_customers, impact, high_risk_export>>

\* Section 4: df = calculate_clv(df)
ClvAnalysis ==
    /\ pc = "clv"
    /\ IF df.is_none
       THEN UNCHANGED <<df, ran>>
       ELSE /\ df' = DataFrame(calculate_clv(df.rows, projection_months))
            /\ ran' = ran \cup {"clv"}
    /\ pc' = "risk"
    /\ UNCHANGED <<source, display, outdir, raw, analyses, chi_results,
                   active_customers, churned_customers, impact, high_risk_export>>

\* Section 5: score the active rows, then the churned rows
RiskScoring ==
    /\ pc = "risk"
    /\ IF df.is_none
       THEN UNCHANGED <<active_customers, churned_customers, ran>>
       ELSE /\ active_customers' = ScoredSubset(df.rows, 0)
            /\ churned_customers' = ScoredSubset(df.rows, 1)
            /\ ran' = ran \cup {"risk"}
    /\ pc' = "visualize"
    /\ UNCHANGED <<source, display, outdir, raw, df, analyses, chi_results,
                   impact, high_risk_export>>

\* Section 6: create_visualizations under try/except Exception
Visualize ==
    /\ pc = "visualize"
    /\ ran' = IF ~df.is_none /\ display = "ok" THEN ran \cup {"visualize"} ELSE ran
    /\ pc' = "impact"
    /\ UNCHANGED <<source, display, outdir, raw, df, analyses, chi_results,
                   active_customers, churned_customers, impact, high_risk_export>>

\* Section 7: the impact projections
Impact ==
    /\ pc = "impact"
    /\ IF df.is_none
       THEN /\ pc' = "export"
            /\ UNCHANGED <<impact, ran>>
       ELSE LET out == ImpactEstimate(df.rows)
            IN  IF out.raised
                THEN /\ pc' = "crashed"
                     /\ UNCHANGED <<impact, ran>>
                ELSE /\ impact' = out
                     /\ ran' = ran \cup {"impact"}
                     /\ pc' = "export"
    /\ UNCHANGED <<source, display, outdir, raw, df, analyses, chi_results,
                   active_customers, churned_customers, high_risk_export>>

\* Sections 8 and 9: the summary text, then the export under try/except
Export ==
    /\ pc = "export"
    /\ IF df.is_none
       THEN UNCHANGED <<high_risk_export, ran>>
       ELSE /\ high_risk_export' \in
                    SortedByScoreDesc(SelectColumns(HighRisk(active_customers),
                                                    export_columns))
            /\ ran' = IF outdir = "ok" THEN ran \cup {"export"} ELSE ran
    /\ pc' = "complete"
    /\ UNCHANGED <<source, display, outdir, raw, df, analyses, chi_results,
                   active_customers, churned_customers, impact>>

\* The closing banner: ANALYSIS COMPLETE
Complete ==
    /\ pc = "complete"
    /\ pc' = "done"
    /\ UNCHANGED <<source, display, outdir, raw, df, analyses, chi_results,
                   active_customers, churned_customers, impact, high_risk_export, ran>>

Next ==
    \/ LoadData
    \/ SegmentAnalysis
    \/ ChiSquare
    \/ ClvAnalysis
    \/ RiskScoring
    \/ Visualize
    \/ Impact
    \/ Export
    \/ Complete

----------------------------------------------------------------------------
(* The data files the specifications start from *)

\* A row of the Telco file; the specifications vary the columns the
\* pipeline reads.
BaseRow ==
    [customerID |-> 0, SeniorCitizen |-> 0, Partner |-> "No", Dependents |-> "No",
     tenure |-> 1, PhoneService |-> "Yes", MultipleLines |-> "No",
     InternetService |-> "DSL", OnlineSecurity |-> "No", OnlineBackup |-> "No",
     DeviceProtection |-> "No", TechSupport |-> "No", StreamingTV |-> "No",
     StreamingMovies |-> "No", Contract |-> "Month-to-month",
     PaymentMethod |-> "Electronic check", MonthlyCharges |-> 5000,
     TotalCharges |-> <<5000>>, Churn |-> "No"]

\* Four customer profiles: a new fiber customer on every risk factor, a
\* monthly DSL customer paying by card, a one-year customer with support,
\* and a two-year phone-only customer who has not been billed yet.
ProfileA ==
    [BaseRow EXCEPT !.tenure = 1, !.InternetService = "Fiber optic",
                    !.MonthlyCharges = 8984, !.TotalCharges = <<8984>>]
ProfileB ==
    [BaseRow EXCEPT !.tenure = 13, !.PaymentMethod = "Credit card (automatic)",
                    !.MonthlyCharges = 5384, !.TotalCharges = <<69992>>,
                    !.SeniorCitizen = 1]
ProfileC ==
    [BaseRow EXCEPT !.tenure = 25, !.Contract = "One year", !.TechSupport = "Yes",
                    !.OnlineSecurity = "Yes", !.MonthlyCharges = 5696,
                    !.TotalCharges = <<142400>>, !.Partner = "Yes"]
ProfileD ==
    [BaseRow EXCEPT !.tenure = 0, !.Contract = "Two year",
                    !.PaymentMethod = "Mailed check", !.InternetService = "No",
                    !.OnlineSecurity = "No internet service",
                    !.OnlineBackup = "No internet service",
                    !.DeviceProtection = "No internet service",
                    !.TechSupport = "No internet service",
                    !.StreamingTV = "No internet service",
                    !.StreamingMovies = "No internet service",
                    !.MonthlyCharges = 2008, !.TotalCharges = <<>>,
                    !.Dependents = "Yes"]

Profiles == <<ProfileA, ProfileB, ProfileC, ProfileD>>

\* Each profile, churned and not.
ProfileRowSeq ==
    [k \in 1..(2 * Len(Profiles)) |->
        [Profiles[(k + 1) \div 2] EXCEPT !.Churn = IF k % 2 = 1 THEN "Yes" ELSE "No"]]

ProfileRows == Range(ProfileRowSeq)

\* customerID is the position of the row in the file.
WithIds(rows) == [i \in DOMAIN rows |-> [rows[i] EXCEPT !.customerID = i]]

TablesUpTo(n, rowSet) ==
    UNION {{WithIds(t) : t \in [1..k -> rowSet]} : k \in 1..n}

\* The tables of exactly k rows of rowSeq whose rows come in the order of
\* rowSeq, starting no earlier than its entry lo.
RECURSIVE GroupedRows(_, _, _)
GroupedRows(k, lo, rowSeq) ==
    IF k = 0 THEN {<<>>}
    ELSE UNION {{<<rowSeq[i]>> \o t : t \in GroupedRows(k - 1, i, rowSeq)} :
                i \in lo..Len(rowSeq)}

GroupedTablesUpTo(n, rowSeq) ==
    UNION {{WithIds(t) : t \in GroupedRows(k, 1, rowSeq)} : k \in 1..n}

\* The values the single-row specification gives the scored columns.
TenureValues == {0, 12, 13, 24, 25, 48, 49, 72}
ChargeValues == {8000, 8001}
PaymentChoices == {"Electronic check", "Mailed check"}

RecordRows ==
    {[BaseRow EXCEPT !.Contract = c, !.tenure = t, !.PaymentMethod = p,
                     !.TechSupport = ts, !.OnlineSecurity = os,
                     !.InternetService = net, !.MonthlyCharges = m, !.Churn = ch] :
        c \in Range(ContractValues), t \in TenureValues, p \in PaymentChoices,
        ts \in Range(AddOnValues), os \in Range(AddOnValues),
        net \in Range(InternetValues), m \in ChargeValues, ch \in {"Yes", "No"}}

InitRest ==
    /\ pc = "load"
    /\ df = NoneDf
    /\ analyses = NoAnalyses
    /\ chi_results = <<>>
    /\ active_customers = <<>>
    /\ churned_customers = <<>>
    /\ impact = NoImpact
    /\ high_risk_export = <<>>
    /\ ran = {}

\* The pipeline on every table of up to MaxRows profile rows; the file is
\* there and the dashboard and the exports can be written.
Init ==
    /\ source = "ok"
    /\ display = "ok"
    /\ outdir = "ok"
    /\ raw \in TablesUpTo(MaxRows, ProfileRows)
    /\ InitRest

Spec == Init /\ [][Next]_vars

\* The pipeline on longer tables, up to MaxImpactRows rows, whose rows are
\* grouped by profile: the impact estimator reads counts and sums only.
InitImpact ==
    /\ source = "ok"
    /\ display = "ok"
    /\ outdir = "ok"
    /\ raw \in GroupedTablesUpTo(MaxImpactRows, ProfileRowSeq)
    /\ InitRest

SpecImpact == InitImpact /\ [][Next]_vars

\* The pipeline on one arbitrary record followed by two fixed rows that keep
\* every segment of the impact estimator populated.
InitRecord ==
    /\ source = "ok"
    /\ display = "ok"
    /\ outdir = "ok"
    /\ raw \in {WithIds(<<r, ProfileB, [ProfileC EXCEPT !.Churn = "Yes",
                                        !.PaymentMethod = "Electronic check"]>>) :
                    r \in RecordRows}
    /\ InitRest

SpecRecord == InitRecord /\ [][Next]_vars

\* The pipeline under every state of its environment: the data file found,
\* missing or unreadable, the dashboard and the export directory writable
\* or not.
InitEnv ==
    /\ source \in {"ok", "missing", "unreadable"}
    /\ display \in {"ok", "fail"}
    /\ outdir \in {"ok", "fail"}
    /\ raw \in IF source = "ok" THEN TablesUpTo(MaxEnvRows, ProfileRows) ELSE {<<>>}
    /\ InitRest

SpecEnv == InitEnv /\ [][Next]_vars

\* The same, with the interpreter running the script statement after
\* statement: a section that can run does run.  After an uncaught exception
\* no section can.
SpecEnvLive == InitEnv /\ [][Next]_vars /\ WF_vars(Next)

\* The companions of a single varied record: a monthly customer paying by
\* card and a churned one-year customer paying by electronic check keep
\* every segment of the impact estimator populated.
Companions ==
    <<ProfileB, [ProfileC EXCEPT !.Churn = "Yes", !.PaymentMethod = "Electronic check"]>>

\* The values the Telco file gives the service columns.
PhoneValues == {"Yes", "No"}
LinesValues == {"Yes", "No", "No phone service"}

ServiceRows ==
    {[BaseRow EXCEPT !.PhoneService = ph, !.MultipleLines = ml,
                     !.InternetService = net, !.OnlineSecurity = os,
                     !.OnlineBackup = ob, !.DeviceProtection = dp,
                     !.TechSupport = ts, !.StreamingTV = tv,
                     !.StreamingMovies = mv] :
        ph \in PhoneValues, ml \in LinesValues, net \in Range(InternetValues),
        os \in Range(AddOnValues), ob \in Range(AddOnValues),
        dp \in Range(AddOnValues), ts \in Range(AddOnValues),
        tv \in Range(AddOnValues), mv \in Range(AddOnValues)}

\* The pipeline on one record with arbitrary service columns, followed by
\* the companions.
InitServices ==
    /\ source = "ok"
    /\ display = "ok"
    /\ outdir = "ok"
    /\ raw \in {WithIds(<<r>> \o Companions) : r \in ServiceRows}
    /\ InitRest

SpecServices == InitServices /\ [][Next]_vars

\* The charges the lifetime-value specification gives its record: the
\* total blank (a customer not billed yet) or a number of cents.
TotalChargesValues == {<<>>, <<10000>>, <<142400>>}
MonthlyChargesValues == {5000, 5384, 8984}

ClvRows ==
    {[BaseRow EXCEPT !.TotalCharges = t, !.MonthlyCharges = m, !.Churn = ch] :
        t \in TotalChargesValues, m \in MonthlyChargesValues, ch \in {"Yes", "No"}}

\* The pipeline on one record with arbitrary charges and outcome, followed
\* by the companions.
InitClv ==
    /\ source = "ok"
    /\ display = "ok"
    /\ outdir = "ok"
    /\ raw \in {WithIds(<<r>> \o Companions) : r \in ClvRows}
    /\ InitRest

SpecClv == InitClv /\ [][Next]_vars

----------------------------------------------------------------------------
(* Properties: the risk scorer (SpecRecord) *)

\* Every row the risk scorer has scored, active or churned.
ScoredRows ==
    {active_customers[i] : i \in DOMAIN active_customers}
        \cup {churned_customers[i] : i \in DOMAIN churned_customers}

\* C1: every scored record has an integer risk score between 0 and 15.
C1_ScoreInRange == \A r \in ScoredRows : r.RiskScore \in 0..15

\* A record on every risk factor has been given the top score.
C1_Witness ==
    /\ pc = "visualize"
    /\ \E r \in ScoredRows :
          /\ r.Contract = "Month-to-month" /\ r.tenure <= 12
          /\ r.InternetService = "Fiber optic" /\ r.MonthlyCharges > 8000
          /\ r.RiskScore = 15

\* The category the thresholds 4, 7 and 10 give a score.
ThresholdCategory(score) ==
    CASE score >= 10 -> "Critical Risk"
      [] score >= 7 /\ score < 10 -> "High Risk"
      [] score >= 4 /\ score < 7 -> "Medium Risk"
      [] OTHER -> "Low Risk"

\* C2: the category of every scored record is Critical from 10, High from 7
\* to 9, Medium from 4 to 6 and Low below 4.
C2_CategoryThresholds ==
    \A r \in ScoredRows : r.RiskCategory = ThresholdCategory(r.RiskScore)

\* One table holds a record scored exactly 7 (High) next to one scored
\* exactly 3 (Low).
C2_Witness ==
    /\ pc = "visualize"
    /\ \E r \in ScoredRows : r.RiskScore = 7 /\ r.RiskCategory = "High Risk"
    /\ \E r \in ScoredRows : r.RiskScore = 3 /\ r.RiskCategory = "Low Risk"

\* The rule table of the scorer: the condition and the points of each rule.
RuleMatches(k, r) ==
    CASE k = 1 -> r.Contract = "Month-to-month"
      [] k = 2 -> r.Contract = "One year"
      [] k = 3 -> r.tenure <= 12
      [] k = 4 -> r.tenure > 12 /\ r.tenure <= 24
      [] k = 5 -> r.PaymentMethod = "Electronic check"
      [] k = 6 -> r.TechSupport = "No" /\ r.InternetService # "No"
      [] k = 7 -> r.OnlineSecurity = "No" /\ r.InternetService # "No"
      [] k = 8 -> r.MonthlyCharges > 8000
      [] k = 9 -> r.InternetService = "Fiber optic"

RulePoints == <<3, 1, 3, 1, 2, 2, 2, 2, 1>>

PointsOfMatchingRules(r) ==
    SeqSum([k \in DOMAIN RulePoints |-> IF RuleMatches(k, r) THEN RulePoints[k] ELSE 0])

\* C3: the score of every scored record is the sum of the points of all the
\* rules it matches.
C3_ScoreIsSumOfRules == \A r \in ScoredRows : r.RiskScore = PointsOfMatchingRules(r)

\* A churned one-year record matches a contract rule, a tenure rule and
\* three later rules, and is scored with all of them.
C3_Witness ==
    /\ pc = "visualize"
    /\ \E i \in DOMAIN churned_customers :
          LET r == churned_customers[i]
          IN  /\ RuleMatches(2, r) /\ RuleMatches(4, r) /\ RuleMatches(5, r)
              /\ RuleMatches(6, r) /\ RuleMatches(8, r)
              /\ r.RiskScore = 8

----------------------------------------------------------------------------
(* Properties: the data source (SpecEnv) *)

\* C4: when the data file is missing or unreadable the run does not crash,
\* no stage processes data, and nothing is produced.
C4_NoDataNoCrash ==
    source \in {"missing", "unreadable"} =>
        /\ pc # "crashed"
        /\ ran = {}
        /\ df.is_none
        /\ analyses = NoAnalyses /\ chi_results = <<>>
        /\ active_customers = <<>> /\ churned_customers = <<>>
        /\ ~impact.computed /\ high_risk_export = <<>>

\* With the file missing the run reaches its end with every stage skipped.
C4_Witness ==
    /\ source = "missing"
    /\ pc = "done"
    /\ ran = {}
    /\ df.is_none

----------------------------------------------------------------------------
(* Properties: tenure groups (SpecRecord) *)

\* C5: every prepared record with tenure in 0..72 is in one of the four
\* tenure groups, and a record with tenure 0 is in the first.
C5_TenureGroupAssigned ==
    \A i \in DOMAIN df.rows :
        LET r == df.rows[i]
        IN  /\ r.tenure \in 0..72 => r.TenureGroup \in Range(TenureLabels)
            /\ r.tenure = 0 => r.TenureGroup = "0-12 months"

\* The bucket the stated ranges give the boundary values.
BoundaryGroup(tenure) ==
    CASE tenure \in {12} -> "0-12 months"
      [] tenure \in {13, 24} -> "13-24 months"
      [] tenure \in {25, 48} -> "25-48 months"
      [] tenure \in {49} -> "49-72 months"

\* C6: the tenure group depends on the tenure alone, and 12, 24 and 48 fall
\* in the lower bucket while 13, 25 and 49 fall in the next one.
C6_TenureBoundaries ==
    /\ \A i \in DOMAIN df.rows :
          df.rows[i].tenure \in {12, 13, 24, 25, 48, 49} =>
              df.rows[i].TenureGroup = BoundaryGroup(df.rows[i].tenure)
    /\ \A i, j \in DOMAIN df.rows :
          df.rows[i].tenure = df.rows[j].tenure =>
              df.rows[i].TenureGroup = df.rows[j].TenureGroup

\* A prepared table holds two records of tenure 13, both in the second
\* bucket, and one of tenure 25 in the third.
C6_Witness ==
    /\ ~df.is_none
    /\ \E i, j \in DOMAIN df.rows :
          /\ i # j
          /\ df.rows[i].tenure = 13 /\ df.rows[j].tenure = 13
          /\ df.rows[i].TenureGroup = "13-24 months"
          /\ df.rows[j].TenureGroup = "13-24 months"
    /\ \E i \in DOMAIN df.rows :
          df.rows[i].tenure = 25 /\ df.rows[i].TenureGroup = "25-48 months"

----------------------------------------------------------------------------
(* Properties: the impact estimator (SpecImpact) *)

\* The rows of df that satisfy Test, by position.
RowsWhere(Test(_)) == {i \in DOMAIN df.rows : Test(df.rows[i])}

ChurnedAmong(S) == Cardinality({i \in S : df.rows[i].Churned = 1})

RECURSIVE SetSum(_, _)
SetSum(f, S) ==
    IF S = {} THEN 0
    ELSE LET x == CHOOSE y \in S : TRUE IN f[x] + SetSum(f, S \ {x})

\* The churn rate of the rows S minus the churn rate of the rows T.
RateDelta(S, T) ==
    [num |-> ChurnedAmong(S) * Cardinality(T) - ChurnedAmong(T) * Cardinality(S),
     den |-> Cardinality(S) * Cardinality(T)]

MonthToMonth == RowsWhere(LAMBDA r : r.Contract = "Month-to-month")
OneYear == RowsWhere(LAMBDA r : r.Contract = "One year")
ECheck == RowsWhere(LAMBDA r : r.PaymentMethod = "Electronic check")
CreditCard == RowsWhere(LAMBDA r : r.PaymentMethod = "Credit card (automatic)")
NoTech == RowsWhere(LAMBDA r : r.TechSupport = "No" /\ r.InternetService # "No")
WithTech == RowsWhere(LAMBDA r : r.TechSupport = "Yes")
Active(S) == {i \in S : df.rows[i].Churned = 0}

\* revenue = saved * avg_monthly_charge * 12, avg being the mean charge of df.
RevenueIsSavedTimesAvgTimes12(revenue, saved) ==
    revenue.num * Len(df.rows)
        = saved * SetSum(Column(df.rows, "MonthlyCharges"), DOMAIN df.rows) * 12 * revenue.den

RevenuesFollow ==
    /\ RevenueIsSavedTimesAvgTimes12(impact.revenue_saved_contract, impact.customers_saved)
    /\ RevenueIsSavedTimesAvgTimes12(impact.revenue_saved_payment,
                                     impact.customers_saved_payment)
    /\ RevenueIsSavedTimesAvgTimes12(impact.revenue_saved_tech, impact.customers_saved_tech)

\* C7 as stated: in each scenario customers_saved is the single floor of
\* population * conversion_rate * churn_rate_delta, and the revenue protected
\* is customers_saved * avg_monthly_charge * 12.
C7_SingleFloor ==
    impact.computed =>
        /\ impact.customers_saved
             = Floor(Cardinality(MonthToMonth) * 30 * RateDelta(MonthToMonth, OneYear).num,
                     100 * RateDelta(MonthToMonth, OneYear).den)
        /\ impact.customers_saved_payment
             = Floor(Cardinality(Active(ECheck)) * 40 * RateDelta(ECheck, CreditCard).num,
                     100 * RateDelta(ECheck, CreditCard).den)
        /\ impact.customers_saved_tech
             = Floor(Cardinality(Active(NoTech)) * RateDelta(NoTech, WithTech).num,
                     RateDelta(NoTech, WithTech).den)
        /\ RevenuesFollow

\* The churn rate of the rows S minus the churn rate of the rows T, each a
\* float quotient, as a float.
FloatRateDelta(S, T) ==
    FSub[FDivInt[ChurnedAmong(S), Cardinality(S)], FDivInt[ChurnedAmong(T), Cardinality(T)]]

\* int(x * y), toward zero, of the float product of a whole number and a float.
IntOfProduct(whole, y) == FTrunc[FMul[FInt[whole], y]]

\* C7 as amended: the targeted population is first cut to a whole number of
\* customers, the float product with the churn-rate delta is cut again,
\* both toward zero as Python's int() does; the tech-support scenario has
\* no conversion step; the revenue protected is customers_saved *
\* avg_monthly_charge * 12.
C7_TruncatedTwice ==
    impact.computed =>
        /\ impact.customers_saved
             = IntOfProduct(IntOfProduct(Cardinality(MonthToMonth), FDivInt[30, 100]),
                            FloatRateDelta(MonthToMonth, OneYear))
        /\ impact.customers_saved_payment
             = IntOfProduct(IntOfProduct(Cardinality(Active(ECheck)), FDivInt[40, 100]),
                            FloatRateDelta(ECheck, CreditCard))
        /\ impact.customers_saved_tech
             = IntOfProduct(Cardinality(Active(NoTech)), FloatRateDelta(NoTech, WithTech))
        /\ RevenuesFollow

\* The contract scenario with a positive delta where cutting the converted
\* population first loses a customer the single floor would count.
C7_Witness ==
    /\ impact.computed
    /\ impact.churn_reduction.sgn = 1
    /\ impact.converted_customers >= 1
    /\ impact.customers_saved
         < Floor(impact.monthly_customers * 30 * RateDelta(MonthToMonth, OneYear).num,
                 100 * RateDelta(MonthToMonth, OneYear).den)

----------------------------------------------------------------------------
(* Properties: the segment aggregator (Spec) *)

\* The members of the segment `key` of column c, by position in df.
Members(c, key) == {i \in DOMAIN df.rows : df.rows[i][c] = key}

SegmentCharges(S) == SetSum(Column(df.rows, "MonthlyCharges"), S)

ChurnedCharges(S) ==
    SetSum(Column(df.rows, "MonthlyCharges"), {i \in S : df.rows[i].Churned = 1})

\* units is the ratio n / d to the nearest whole unit (either one at a tie).
NearestUnits(units, n, d) ==
    /\ 2 * (units * d - n) <= d
    /\ 2 * (n - units * d) <= d

\* The summaries of the non-empty segments, with their column.
NonEmptySegments ==
    UNION {{[column |-> c, summary |-> analyses[c][k]] :
                k \in {j \in DOMAIN analyses[c] : ~analyses[c][j].ChurnRate.nan}} :
           c \in Range(SegmentColumns)}

\* The churn rate of the summary is the churned share of the segment to
\* four decimals, and its Revenue at Risk, to the cent, the total charges of
\* the segment times that rate.
RevenueAtRiskIsTotalTimesRate(g) ==
    LET S == Members(g.column, g.summary.key)
    IN  /\ ~g.summary.RevenueAtRisk.nan
        /\ g.summary.TotalRevenue = SegmentCharges(S)
        /\ NearestUnits(g.summary.ChurnRate.v, ChurnedAmong(S) * 10000, Cardinality(S))
        /\ NearestUnits(g.summary.RevenueAtRisk.v,
                        SegmentCharges(S) * g.summary.ChurnRate.v, 10000)

\* C8 as stated: Revenue at Risk is total revenue times churn rate, and it
\* differs from the charges of the churned members whenever the churn rate
\* is not 1.
C8_DiffersUnlessAllChurned ==
    \A g \in NonEmptySegments :
        LET S == Members(g.column, g.summary.key)
        IN  /\ RevenueAtRiskIsTotalTimesRate(g)
            /\ ChurnedAmong(S) # Cardinality(S) =>
                   g.summary.RevenueAtRisk.v # ChurnedCharges(S)

\* C8 as amended: Revenue at Risk is total revenue times churn rate; it
\* equals the charges of the churned members when the churn rate is 0 or 1.
C8_TotalTimesRate ==
    \A g \in NonEmptySegments :
        LET S == Members(g.column, g.summary.key)
        IN  /\ RevenueAtRiskIsTotalTimesRate(g)
            /\ ChurnedAmong(S) \in {0, Cardinality(S)} =>
                   g.summary.RevenueAtRisk.v = ChurnedCharges(S)

\* A segment with a churn rate strictly between 0 and 1 whose Revenue at
\* Risk is not the charges of its churned members.
C8_Witness ==
    \E g \in NonEmptySegments :
        LET S == Members(g.column, g.summary.key)
        IN  /\ ChurnedAmong(S) \notin {0, Cardinality(S)}
            /\ g.summary.RevenueAtRisk.v # ChurnedCharges(S)
            /\ g.summary.RevenueAtRisk.v > 0

\* The keys of the analysis of column c, in result order.
Keys(c) == [k \in DOMAIN analyses[c] |-> analyses[c][k].key]

\* The place of value v in the ascending order of the values of column c.
Rank(c, v) == CHOOSE i \in DOMAIN ColumnValues(c) : ColumnValues(c)[i] = v

\* The columns grouped by their string values (TenureGroup is categorical).
StringColumns == Range(SegmentColumns) \ {"TenureGroup"}

\* C9 as stated: the segments come in the order in which their values first
\* appear in the records.
C9_FirstSeenOrder ==
    "segments" \in ran =>
        \A c \in StringColumns : Keys(c) = FirstSeen(df.rows, c)

\* C9 as amended: the segments come in ascending order of their values,
\* one per distinct value of the records.
C9_AscendingOrder ==
    "segments" \in ran =>
        /\ \A c \in Range(SegmentColumns) :
              /\ \A i, j \in DOMAIN Keys(c) :
                    i < j => Rank(c, Keys(c)[i]) < Rank(c, Keys(c)[j])
              /\ \A i \in DOMAIN df.rows :
                    df.rows[i][c] # "NaN" => df.rows[i][c] \in Range(Keys(c))
        /\ \A c \in StringColumns :
              Range(Keys(c)) = {df.rows[i][c] : i \in DOMAIN df.rows}

\* A table whose first record is on a later contract than its second: the
\* contract analysis still lists the earlier contract first.
C9_Witness ==
    /\ "segments" \in ran
    /\ Len(df.rows) >= 2
    /\ df.rows[1].Contract = "Two year"
    /\ df.rows[2].Contract = "Month-to-month"
    /\ Keys("Contract")[1] = "Month-to-month"

InjectiveMaps(n) == {p \in [1..n -> 1..n] : \A i, j \in 1..n : i # j => p[i] # p[j]}

\* The count, churned count, churn rate and total revenue of each segment.
NumericOutputs(analysis) ==
    {[key |-> analysis[k].key,
      TotalCustomers |-> analysis[k].TotalCustomers,
      Churned |-> analysis[k].Churned,
      ChurnRate |-> analysis[k].ChurnRate,
      TotalRevenue |-> analysis[k].TotalRevenue] : k \in DOMAIN analysis}

\* C10: whatever the order of the records, each segment has the same
\* customer count, churned count, churn rate and total revenue.
C10_OrderIndependent ==
    (pc = "chi_square" /\ ~df.is_none) =>
        \A p \in InjectiveMaps(Len(df.rows)) :
            \A c \in Range(SegmentColumns) :
                NumericOutputs(analyze_churn_by_segment(
                                   [i \in DOMAIN df.rows |-> df.rows[p[i]]], c))
                    = NumericOutputs(analyses[c])

\* The analyses of a table of three records, two in one contract segment
\* with different charges and different outcomes.
C10_Witness ==
    /\ pc = "chi_square"
    /\ Len(df.rows) = 3
    /\ \E i, j \in DOMAIN df.rows :
          /\ i < j
          /\ df.rows[i].Contract = df.rows[j].Contract
          /\ df.rows[i].MonthlyCharges # df.rows[j].MonthlyCharges
          /\ df.rows[i].Churned # df.rows[j].Churned
    /\ analyses["Contract"] # <<>>

----------------------------------------------------------------------------
(* Properties: the service count (SpecServices) *)

\* 1 when the value names a service, 0 when it is one of the three ways the
\* file says there is none.
IsService(val) ==
    IF val = "No" \/ val = "No phone service" \/ val = "No internet service"
    THEN 0 ELSE 1

NineFieldCount(r) ==
    IsService(r.PhoneService) + IsService(r.MultipleLines)
    + IsService(r.InternetService) + IsService(r.OnlineSecurity)
    + IsService(r.OnlineBackup) + IsService(r.DeviceProtection)
    + IsService(r.TechSupport) + IsService(r.StreamingTV)
    + IsService(r.StreamingMovies)

\* C11: the service count of every prepared record is the number of its
\* nine service fields whose value is none of 'No', 'No phone service',
\* 'No internet service', and lies between 0 and 9.
C11_ServiceCount ==
    \A i \in DOMAIN df.rows :
        /\ df.rows[i].ServiceCount = NineFieldCount(df.rows[i])
        /\ df.rows[i].ServiceCount \in 0..9

\* A prepared record without phone service ('No', 'No phone service'), on
\* DSL, with two add-ons marked 'No internet service', one 'No' and three
\* 'Yes' is counted 4, next to a companion counted 2.
C11_Witness ==
    /\ ~df.is_none
    /\ \E i, j \in DOMAIN df.rows :
          LET r == df.rows[i]
          IN  /\ r.PhoneService = "No" /\ r.MultipleLines = "No phone service"
              /\ r.InternetService = "DSL"
              /\ r.OnlineSecurity = "No internet service"
              /\ r.OnlineBackup = "No internet service"
              /\ r.DeviceProtection = "No"
              /\ r.TechSupport = "Yes" /\ r.StreamingTV = "Yes"
              /\ r.StreamingMovies = "Yes"
              /\ r.ServiceCount = 4
              /\ df.rows[j].ServiceCount = 2

----------------------------------------------------------------------------
(* Properties: the lifetime value (SpecClv) *)

\* Horizons in months, the default among them.
ClvHorizons == {1, 12, 36, 60}

\* Row `out` is row `r` with projected_clv = total_charge + monthly_charge *
\* horizon and clv_at_risk = projected_clv if churned, 0 otherwise.
ClvOfRecord(out, r, horizon) ==
    /\ out.ProjectedCLV = r.TotalCharges + r.MonthlyCharges * horizon
    /\ out.CLVAtRisk = IF r.Churned = 1 THEN out.ProjectedCLV ELSE 0
    /\ out.customerID = r.customerID

\* C12: for every record and horizon calculate_clv gives projected_clv =
\* total_charge + monthly_charge * horizon and clv_at_risk = projected_clv for
\* a churned record, 0 otherwise; the script applies it with the default
\* horizon of 36 months.
C12_ClvFormula ==
    /\ "clv" \in ran =>
          \A i \in DOMAIN df.rows : ClvOfRecord(df.rows[i], df.rows[i], 36)
    /\ ~df.is_none =>
          \A h \in ClvHorizons :
              LET out == calculate_clv(df.rows, h)
              IN  /\ Len(out) = Len(df.rows)
                  /\ \A i \in DOMAIN df.rows : ClvOfRecord(out[i], df.rows[i], h)

\* A churned record with total charges 100.00 and monthly charge 50.00 has
\* projected value and value at risk 1900.00; its active companion has a
\* projected value and nothing at risk.
C12_Witness ==
    /\ "clv" \in ran
    /\ \E i, j \in DOMAIN df.rows :
          /\ df.rows[i].TotalCharges = 10000 /\ df.rows[i].MonthlyCharges = 5000
          /\ df.rows[i].Churned = 1
          /\ df.rows[i].ProjectedCLV = 190000 /\ df.rows[i].CLVAtRisk = 190000
          /\ df.rows[j].Churned = 0
          /\ df.rows[j].ProjectedCLV = 263816 /\ df.rows[j].CLVAtRisk = 0

----------------------------------------------------------------------------
(* Properties: the two scoring passes (Spec) *)

\* The customers of a table, by customerID.
Ids(table) == {table[i].customerID : i \in DOMAIN table}

IdsWithFlag(flag) == {df.rows[i].customerID : i \in {j \in DOMAIN df.rows : df.rows[j].Churned = flag}}

\* C13: the active set holds exactly the records with churned = 0 and the
\* churned set exactly those with churned = 1; no record is in both, every
\* record of the table is in one, each is scored once, and both sets are
\* scored and categorised by the same rule.
C13_DisjointScoring ==
    "risk" \in ran =>
        /\ Ids(active_customers) = IdsWithFlag(0)
        /\ Ids(churned_customers) = IdsWithFlag(1)
        /\ Ids(active_customers) \cap Ids(churned_customers) = {}
        /\ Ids(active_customers) \cup Ids(churned_customers) = Ids(df.rows)
        /\ Len(active_customers) + Len(churned_customers) = Len(df.rows)
        /\ \A r \in ScoredRows :
              /\ r.RiskScore = PointsOfMatchingRules(r)
              /\ r.RiskCategory = ThresholdCategory(r.RiskScore)

\* A table with an active and a churned customer of the same profile: one
\* is in each set, with the same score and category.
C13_Witness ==
    /\ "risk" \in ran
    /\ Len(df.rows) = 3
    /\ \E i \in DOMAIN active_customers, j \in DOMAIN churned_customers :
          /\ active_customers[i].Contract = churned_customers[j].Contract
          /\ active_customers[i].tenure = churned_customers[j].tenure
          /\ active_customers[i].customerID # churned_customers[j].customerID
          /\ active_customers[i].RiskScore = 8
          /\ churned_customers[j].RiskScore = 8
          /\ active_customers[i].RiskCategory = churned_customers[j].RiskCategory

----------------------------------------------------------------------------
(* Properties: the projected churn rate (SpecImpact) *)

\* C14: when every segment the impact estimator reads is non-empty, the
\* three scenarios together save no more customers than have churned and
\* no fewer than none, so the projected churn rate (churned_count -
\* total_customers_saved) / total_customers is between 0 and the baseline
\* churn rate churned_count / total_customers.
C14_NewChurnRateBounded ==
    impact.computed =>
        /\ impact.total_customers_saved >= 0
        /\ impact.total_customers_saved <= impact.churned_count
        /\ impact.new_churn_rate.num >= 0
        /\ impact.new_churn_rate.num * impact.total_customers
              <= impact.churned_count * impact.new_churn_rate.den

\* Customers with technical support churn more than those without: the
\* tech-support scenario saves a negative number of customers and the
\* projected churn rate is above the baseline.
C14_Witness ==
    /\ impact.computed
    /\ impact.churn_reduction_tech.sgn = -1
    /\ impact.customers_saved_tech < 0
    /\ impact.total_customers_saved < 0
    /\ impact.new_churn_rate.num > impact.churned_count
    /\ impact.new_churn_rate.den = impact.total_customers

----------------------------------------------------------------------------
(* Properties: the high-risk list (SpecRecord) *)

\* The customers of df that are active and score 7 or more on the rule
\* table.
ActiveAtLeastSeven ==
    {df.rows[i].customerID :
        i \in {j \in DOMAIN df.rows : /\ df.rows[j].Churned = 0
                                      /\ PointsOfMatchingRules(df.rows[j]) >= 7}}

\* C15: the exported list holds exactly the active records scored 7 or
\* more, each once, in non-increasing order of score; no churned record
\* and no record scored below 7 is in it.
C15_ExportedHighRisk ==
    (pc \in {"complete", "done"} /\ ~df.is_none) =>
        /\ Ids(high_risk_export) = ActiveAtLeastSeven
        /\ Len(high_risk_export) = Cardinality(ActiveAtLeastSeven)
        /\ \A i, j \in DOMAIN high_risk_export :
              i < j => high_risk_export[i].RiskScore >= high_risk_export[j].RiskScore
        /\ \A i \in DOMAIN high_risk_export :
              LET e == high_risk_export[i]
              IN  /\ e.RiskScore = PointsOfMatchingRules(df.rows[e.customerID])
                  /\ e.RiskScore >= 7
                  /\ e.RiskCategory \in {"High Risk", "Critical Risk"}
                  /\ df.rows[e.customerID].Churned = 0

\* The first customer of the file is active and scored exactly 7, the
\* second is active and scored 8, the third has churned: the list holds the
\* second, then the first, and not the third.
C15_Witness ==
    /\ pc = "complete"
    /\ Len(df.rows) = 3
    /\ df.rows[3].Churned = 1
    /\ Len(high_risk_export) = 2
    /\ high_risk_export[1].customerID = 2 /\ high_risk_export[1].RiskScore = 8
    /\ high_risk_export[2].customerID = 1 /\ high_risk_export[2].RiskScore = 7

----------------------------------------------------------------------------
(* Properties: the end of the run (SpecEnvLive) *)

\* C16: whether the data file was found or not and whether the dashboard
\* or the export failed or not, the run eventually reaches the final
\* ANALYSIS COMPLETE step, and with data loaded the impact estimator has
\* executed by then.
C16_RunCompletes == <>(pc = "done" /\ (~df.is_none => impact.computed))

\* The dashboard and the export both fail on a loaded table whose impact
\* segments are all populated: the impact estimator and the export stage
\* have run and the run has reached its end.
C16_Witness ==
    /\ source = "ok" /\ display = "fail" /\ outdir = "fail"
    /\ pc = "done"
    /\ impact.computed
    /\ "visualize" \notin ran /\ "export" \notin ran
    /\ {"impact", "risk"} \subseteq ran
    /\ high_risk_export # <<>>

=============================================================================
